---- MODULE Spec2Model ----
(***************************************************************************)
(* Model of src/main.py: the Book / Library classes and the interactive   *)
(* menu loop of main().                                                    *)
(*                                                                         *)
(* Text is modelled as a tuple of one-character strings, so that          *)
(* str.lower(), str.strip(), int() and the substring test are computed,   *)
(* not assumed.  The two status literals and the confirmation word of the *)
(* source are Cyrillic; they are written here in ASCII:                    *)
(*   Available  stands for the literal at main.py:43 / :154               *)
(*   CheckedOut stands for the literal at main.py:154                     *)
(*   <<"d","a">> stands for the confirmation word at main.py:153          *)
(***************************************************************************)
EXTENDS Integers, Sequences, FiniteSets, TLC

VARIABLES books, file, log, pc, call, out

vars == <<books, file, log, pc, call, out>>

(* ---------------------------- bounds ----------------------------------- *)

\* the menu loop stops taking logged operations once the log holds MaxLog events
MaxLog == 4

(* ---------------------------- inputs ----------------------------------- *)

\* what is typed at the three prompts of case "1": title, author, year
AddInputs ==
    { << <<"D", "u">>, <<"S", "m">>, <<"1">> >>,
      << <<"1", "a">>, <<"J", "d">>, <<"2", "0", "2", "5">> >>,
      << <<"D", "u">>, <<"S", "m">>, <<"0">> >>,
      << <<"1", "a">>, <<"J", "d">>, <<"2", "0", "2", "6">> >>,
      << <<"D", "u">>, <<"J">>, <<"2", "0", "2", "7">> >>,
      << <<"1", "a">>, <<"S", "m">>, <<"x">> >> }

IdInputs == { <<"1">>, <<" ", "2">>, <<"x">> }

ConfirmInputs == { <<"d", "a">>, <<" ", "D", "A", " ">>, <<"n", "e", "t">>, <<>> }

Queries == { <<>>, <<"D">>, <<"1">> }

FieldChoices == { "1", "2", "3", "4" }

(* ------------------------ text primitives ------------------------------ *)

\* str.lower() on one character
LowerChar(c) ==
    CASE c = "A" -> "a"
      [] c = "D" -> "d"
      [] c = "J" -> "j"
      [] c = "M" -> "m"
      [] c = "S" -> "s"
      [] c = "U" -> "u"
      [] OTHER -> c

\* str.lower()
Lower(s) == [i \in 1..Len(s) |-> LowerChar(s[i])]

RECURSIVE LStrip(_)
LStrip(s) == IF s # <<>> /\ Head(s) = " " THEN LStrip(Tail(s)) ELSE s

RECURSIVE RStrip(_)
RStrip(s) ==
    IF s # <<>> /\ s[Len(s)] = " " THEN RStrip(SubSeq(s, 1, Len(s) - 1)) ELSE s

\* str.strip()
Strip(s) == RStrip(LStrip(s))

\* the Python test  q in s  on text
Contains(s, q) ==
    \E i \in 0..(Len(s) - Len(q)) : SubSeq(s, i + 1, i + Len(q)) = q

Digits == <<"0", "1", "2", "3", "4", "5", "6", "7", "8", "9">>

IsDigit(c) == \E d \in 1..10 : Digits[d] = c

DigitVal(c) == (CHOOSE d \in 1..10 : Digits[d] = c) - 1

RECURSIVE DigitsVal(_)
DigitsVal(s) ==
    IF s = <<>> THEN 0
    ELSE 10 * DigitsVal(SubSeq(s, 1, Len(s) - 1)) + DigitVal(s[Len(s)])

\* int(text): surrounding blanks are ignored, an optional sign, then digits;
\* anything else raises ValueError (ok = FALSE)
ParseInt(s) ==
    LET t == Strip(s)
        signed == t # <<>> /\ Head(t) \in {"-", "+"}
        body == IF signed THEN Tail(t) ELSE t
    IN  IF body # <<>> /\ \A i \in 1..Len(body) : IsDigit(body[i])
        THEN [ok |-> TRUE,
              val |-> IF signed /\ Head(t) = "-" THEN 0 - DigitsVal(body)
                      ELSE DigitsVal(body)]
        ELSE [ok |-> FALSE, val |-> 0]

RECURSIVE NatToStr(_)
NatToStr(n) ==
    IF n < 10 THEN <<Digits[n + 1]>>
    ELSE NatToStr(n \div 10) \o <<Digits[(n % 10) + 1]>>

\* str(int)
IntToStr(n) == IF n < 0 THEN <<"-">> \o NatToStr(0 - n) ELSE NatToStr(n)

(* ------------------------------ Book ----------------------------------- *)

Available == "available"

CheckedOut == "checked_out"

\* Book.__init__ with the other status as the default
Book_DefaultCheckedOut(book_id, title, author, year) ==
    [id |-> book_id, title |-> title, author |-> author, year |-> year,
     status |-> CheckedOut]

\* Book.__init__ with the default status
Book(book_id, title, author, year) ==
    [id |-> book_id, title |-> title, author |-> author, year |-> year,
     status |-> Available]

\* Book.to_dict with the values of two keys exchanged
to_dict_Swapped(b) ==
    << <<"id", b.id>>, <<"title", b.author>>, <<"author", b.title>>,
       <<"year", b.year>>, <<"status", b.status>> >>

\* Book.to_dict: the JSON object, as its ordered key/value pairs
to_dict(b) ==
    << <<"id", b.id>>, <<"title", b.title>>, <<"author", b.author>>,
       <<"year", b.year>>, <<"status", b.status>> >>

\* data[key]
Get(data, key) == data[CHOOSE i \in 1..Len(data) : data[i][1] = key][2]

\* Book.from_dict
from_dict(data) ==
    [id |-> Get(data, "id"), title |-> Get(data, "title"),
     author |-> Get(data, "author"), year |-> Get(data, "year"),
     status |-> Get(data, "status")]

(* ----------------------------- Library --------------------------------- *)

\* Library.save_books: the file is overwritten with the dump of every book
save_books(bs) ==
    [exists |-> TRUE, content |-> [i \in 1..Len(bs) |-> to_dict(bs[i])]]

\* Library.load_books: self.books is replaced only when the file exists
load_books(bs, f) ==
    IF f.exists THEN [i \in 1..Len(f.content) |-> from_dict(f.content[i])]
    ELSE bs

\* Library.__init__: an empty list, then load_books
NewLibrary(f) == load_books(<<>>, f)

Max(S) == CHOOSE m \in S : \A x \in S : x <= m

\* the next id taken from the number of books
NewId_Len(bs) == Len(bs) + 1

\* the next id with default=1
NewId_DefaultOne(bs) ==
    (IF bs = <<>> THEN 1 ELSE Max({bs[i].id : i \in 1..Len(bs)})) + 1

\* max((book.id for book in self.books), default=0) + 1
NewId(bs) ==
    (IF bs = <<>> THEN 0 ELSE Max({bs[i].id : i \in 1..Len(bs)})) + 1

\* any(book.id == new_id for book in self.books)
IdTaken(bs, new_id) == \E i \in 1..Len(bs) : bs[i].id = new_id

\* Library.find_book_by_id: the index of the first match, 0 for None
find_book_by_id(bs, book_id) ==
    IF \E i \in 1..Len(bs) : bs[i].id = book_id
    THEN CHOOSE i \in 1..Len(bs) :
            /\ bs[i].id = book_id
            /\ \A j \in 1..(i - 1) : bs[j].id # book_id
    ELSE 0

\* del self.books[:i] in place of the removal of one book
Remove_DropPrefix(bs, i) == SubSeq(bs, i + 1, Len(bs))

\* self.books.pop() in place of the removal of the book found
Remove_Last(bs, i) == SubSeq(bs, 1, Len(bs) - 1)

\* list.remove of the book found at index i
Remove(bs, i) == SubSeq(bs, 1, i - 1) \o SubSeq(bs, i + 1, Len(bs))

\* str(getattr(book, field, ""))
FieldText(b, field) ==
    CASE field = "title" -> b.title
      [] field = "author" -> b.author
      [] field = "year" -> IntToStr(b.year)
      [] OTHER -> <<>>

\* the filter without .lower() on the field text
Matches_FieldNotLowered(b, query, field) ==
    Contains(FieldText(b, field), Lower(query))

\* the filter of Library.search_books
Matches(b, query, field) == Contains(Lower(FieldText(b, field)), Lower(query))

RECURSIVE search_books(_, _, _)
search_books(bs, query, field) ==
    IF bs = <<>> THEN <<>>
    ELSE (IF Matches(Head(bs), query, field) THEN <<Head(bs)>> ELSE <<>>)
         \o search_books(Tail(bs), query, field)

\* a new status that is always the checked-out one
Toggle_OneWay(status) == CheckedOut

\* the new status computed in Library.update_status
Toggle(status) == IF status = Available THEN CheckedOut ELSE Available

\* confirm = input(...).strip().lower();  confirm == <the confirmation word>
Confirmed(answer) == Lower(Strip(answer)) = <<"d", "a">>

\* log_event: one line appended to the log
Event(kind, id) == [kind |-> kind, id |-> id]

\* what a Library method leaves behind: the list, the file, the log, how it
\* ended, and the status it printed (update_status only)
Result(bs, f, lg, outcome, shown) ==
    [books |-> bs, file |-> f, log |-> lg, outcome |-> outcome, shown |-> shown]

\* Library.add_book
add_book(bs, f, lg, title, author, year) ==
    LET new_id == NewId(bs)
        added == Append(bs, Book(new_id, title, author, year))
    IN  IF IdTaken(bs, new_id)
        THEN Result(bs, f, lg, "raised", "")
        ELSE Result(added, save_books(added),
                    Append(lg, Event("added", new_id)), "added", "")

\* Library.delete_book
delete_book(bs, f, lg, book_id) ==
    LET book == find_book_by_id(bs, book_id)
        left == Remove(bs, book)
    IN  IF book # 0
        THEN Result(left, save_books(left),
                    Append(lg, Event("deleted", book_id)), "deleted", "")
        ELSE Result(bs, f, Append(lg, Event("delete_not_found", book_id)),
                    "not_found", "")

\* update_status that flips and saves before it looks at the answer
update_status_BeforeAnswer(bs, f, lg, book_id, answer) ==
    LET book == find_book_by_id(bs, book_id)
        new_status == Toggle(bs[book].status)
        changed == [bs EXCEPT ![book].status = new_status]
    IN  IF book = 0
        THEN Result(bs, f, Append(lg, Event("status_not_found", book_id)),
                    "not_found", "")
        ELSE IF Confirmed(answer)
        THEN Result(changed, save_books(changed),
                    Append(lg, Event("status_changed", book_id)),
                    "changed", bs[book].status)
        ELSE Result(changed, save_books(changed),
                    Append(lg, Event("status_unchanged", book_id)),
                    "declined", bs[book].status)

\* Library.update_status; answer is what is typed at its confirmation prompt
update_status(bs, f, lg, book_id, answer) ==
    LET book == find_book_by_id(bs, book_id)
        new_status == Toggle(bs[book].status)
        changed == [bs EXCEPT ![book].status = new_status]
    IN  IF book = 0
        THEN Result(bs, f, Append(lg, Event("status_not_found", book_id)),
                    "not_found", "")
        ELSE IF Confirmed(answer)
        THEN Result(changed, save_books(changed),
                    Append(lg, Event("status_changed", book_id)),
                    "changed", bs[book].status)
        ELSE Result(bs, f, Append(lg, Event("status_unchanged", book_id)),
                    "declined", bs[book].status)

(* ------------------------------ main ----------------------------------- *)

\* datetime.now().year
CurrentYear == 2026

\* the negation of  not 0 < year < datetime.now().year
YearAccepted(year) == 0 < year /\ year < CurrentYear

\* field_mapping.get(field_choice)
FieldOf(choice) ==
    CASE choice = "1" -> "title"
      [] choice = "2" -> "author"
      [] choice = "3" -> "year"
      [] OTHER -> ""

\* the menu choice just served: the choice, the text typed for the year, id
\* or query, the search field, how the choice ended, the status printed
Call(op, arg, field, outcome, shown) ==
    [op |-> op, arg |-> arg, field |-> field, outcome |-> outcome, shown |-> shown]

Init ==
    /\ file = [exists |-> FALSE, content |-> <<>>]
    /\ books = NewLibrary(file)
    /\ log = <<>>
    /\ pc = "menu"
    /\ call = Call("start", <<>>, "", "", "")
    /\ out = <<>>

\* case "1": the year is parsed and range-checked, then Library.add_book;
\* a ValueError raised by add_book is outside the try block and ends main
Case1(title, author, yearText) ==
    /\ pc = "menu"
    /\ Len(log) < MaxLog
    /\ LET year == ParseInt(yearText)
           r == add_book(books, file, log, title, author, year.val)
       IN  IF ~year.ok
           THEN /\ call' = Call("1", yearText, "", "not_a_number", "")
                /\ UNCHANGED <<books, file, log, pc>>
           ELSE IF ~YearAccepted(year.val)
           THEN /\ call' = Call("1", yearText, "", "out_of_range", "")
                /\ UNCHANGED <<books, file, log, pc>>
           ELSE /\ books' = r.books
                /\ file' = r.file
                /\ log' = r.log
                /\ call' = Call("1", yearText, "", r.outcome, "")
                /\ pc' = IF r.outcome = "raised" THEN "crashed" ELSE pc
    /\ out' = <<>>

\* case "2": the id is parsed, then Library.delete_book
Case2(idText) ==
    /\ pc = "menu"
    /\ Len(log) < MaxLog
    /\ LET book_id == ParseInt(idText)
           r == delete_book(books, file, log, book_id.val)
       IN  IF ~book_id.ok
           THEN /\ call' = Call("2", idText, "", "not_a_number", "")
                /\ UNCHANGED <<books, file, log>>
           ELSE /\ books' = r.books
                /\ file' = r.file
                /\ log' = r.log
                /\ call' = Call("2", idText, "", r.outcome, "")
    /\ out' = <<>>
    /\ UNCHANGED pc

\* case "3": the field is chosen, then Library.search_books
Case3(choice, query) ==
    /\ pc = "menu"
    /\ LET field == FieldOf(choice)
       IN  IF field = ""
           THEN /\ call' = Call("3", <<>>, "", "bad_field", "")
                /\ out' = <<>>
           ELSE /\ call' = Call("3", query, field, "searched", "")
                /\ out' = search_books(books, query, field)
    /\ UNCHANGED <<books, file, log, pc>>

\* case "4": Library.list_books
Case4 ==
    /\ pc = "menu"
    /\ call' = Call("4", <<>>, "", IF books = <<>> THEN "empty" ELSE "listed", "")
    /\ out' = books
    /\ UNCHANGED <<books, file, log, pc>>

\* case "5": the id is parsed, then Library.update_status
Case5(idText, answer) ==
    /\ pc = "menu"
    /\ Len(log) < MaxLog
    /\ LET book_id == ParseInt(idText)
           r == update_status(books, file, log, book_id.val, answer)
       IN  IF ~book_id.ok
           THEN /\ call' = Call("5", idText, "", "not_a_number", "")
                /\ UNCHANGED <<books, file, log>>
           ELSE /\ books' = r.books
                /\ file' = r.file
                /\ log' = r.log
                /\ call' = Call("5", idText, "", r.outcome, r.shown)
    /\ out' = <<>>
    /\ UNCHANGED pc

\* case "6": the loop is left
Case6 ==
    /\ pc = "menu"
    /\ pc' = "exited"
    /\ call' = Call("6", <<>>, "", "exit", "")
    /\ out' = <<>>
    /\ UNCHANGED <<books, file, log>>

\* case _: any other choice
CaseOther ==
    /\ pc = "menu"
    /\ call' = Call("other", <<>>, "", "bad_choice", "")
    /\ out' = <<>>
    /\ UNCHANGED <<books, file, log, pc>>

\* main() is started again: a new Library on the same file
Start ==
    /\ pc \in {"exited", "crashed"}
    /\ books' = NewLibrary(file)
    /\ pc' = "menu"
    /\ call' = Call("start", <<>>, "", "", "")
    /\ out' = <<>>
    /\ UNCHANGED <<file, log>>

Next ==
    \/ \E i \in AddInputs : Case1(i[1], i[2], i[3])
    \/ \E i \in IdInputs : Case2(i)
    \/ \E c \in FieldChoices, q \in Queries : Case3(c, q)
    \/ Case4
    \/ \E i \in IdInputs, c \in ConfirmInputs : Case5(i, c)
    \/ Case6
    \/ CaseOther
    \/ Start

Spec == Init /\ [][Next]_vars

(* ------------------------------ claims --------------------------------- *)

Ids(bs) == [i \in 1..Len(bs) |-> bs[i].id]

\* the id typed at the prompt of the choice just served
CallId == ParseInt(call.arg).val

\* the same, for the choice served by the step
CallIdNext == ParseInt(call'.arg).val

UniqueIds ==
    \A i, j \in 1..Len(books) : i # j => books[i].id # books[j].id

\* the ids after the step are the ids before it, in the same order, with at
\* most one appended or one taken out
IdsCarried ==
    LET o == Ids(books)
        n == Ids(books')
    IN  \/ n = o
        \/ Len(n) = Len(o) + 1 /\ SubSeq(n, 1, Len(o)) = o
        \/ \E i \in 1..Len(o) : n = SubSeq(o, 1, i - 1) \o SubSeq(o, i + 1, Len(o))

\* C1: no two records of Library.books have the same id, and every step
\* keeps the id of each record that stays in the store.
C1_IdUniqueImmutable == []UniqueIds /\ [][IdsCarried]_vars

\* C1 witness: a record was deleted and an id was given again, next to a
\* record that stayed.
C1_Witness ==
    /\ Len(books) = 2
    /\ Len(log) = 4
    /\ log[3].kind = "deleted"
    /\ log[4].kind = "added"
    /\ log[4].id = log[3].id

NoDelete == \A k \in 1..Len(log) : log[k].kind # "deleted"

\* C2: as long as no delete_book has removed a record, the k-th record in
\* store order has id k, and the k-th add_book logged id k.
C2_SequentialIds ==
    NoDelete =>
        /\ \A k \in 1..Len(books) : books[k].id = k
        /\ LET adds == SelectSeq(log, LAMBDA e : e.kind = "added")
           IN  /\ Len(adds) = Len(books)
               /\ \A k \in 1..Len(adds) : adds[k].id = k

\* C2 witness: three add_book calls, other calls in between, no delete.
C2_Witness == NoDelete /\ Len(books) = 3 /\ Len(log) = 4

\* C3: add_book never ends in the ValueError outcome; each call appends
\* exactly one record at the end, with an id above every id in the store.
C3_AddNeverRaises ==
    /\ [](pc # "crashed" /\ call.outcome # "raised")
    /\ [][call'.op = "1" /\ call'.outcome \notin {"not_a_number", "out_of_range"}
            => /\ Len(books') = Len(books) + 1
               /\ SubSeq(books', 1, Len(books)) = books
               /\ \A i \in 1..Len(books) : books[i].id < books'[Len(books')].id]_vars

\* C3 witness: add_book ran on a store whose size is below its largest id.
C3_Witness ==
    /\ call.op = "1"
    /\ call.outcome = "added"
    /\ Len(books) = 2
    /\ books[2].id = 3

\* C4: delete_book never raises; on an absent id the list and the file are
\* as before and one failure event is logged; on a present id the record is
\* gone and the others remain in their order.
C4_Delete ==
    [][call'.op = "2" /\ call'.outcome # "not_a_number"
        => /\ pc' = "menu"
           /\ call'.outcome \in {"deleted", "not_found"}
           /\ call'.outcome = "not_found"
                <=> \A i \in 1..Len(books) : books[i].id # CallIdNext
           /\ call'.outcome = "not_found"
                => /\ books' = books
                   /\ file' = file
                   /\ log' = Append(log, Event("delete_not_found", CallIdNext))
           /\ call'.outcome = "deleted"
                => /\ find_book_by_id(books', CallIdNext) = 0
                   /\ books' = SelectSeq(books, LAMBDA b : b.id # CallIdNext)
                   /\ Len(books') = Len(books) - 1]_vars

\* C4 witness: the middle one of three records was deleted.
C4_Witness ==
    /\ call.op = "2"
    /\ call.outcome = "deleted"
    /\ Ids(books) = <<1, 3>>

\* C5: a confirmed update_status on an existing record turns available into
\* checked_out and checked_out into available; a second confirmed call on
\* the same id right after the first brings back the status the first found.
C5_ToggleTwice ==
    [][call'.op = "5" /\ call'.outcome = "changed"
        => LET i == find_book_by_id(books, CallIdNext)
           IN  /\ i # 0
               /\ call'.shown = books[i].status
               /\ books[i].status = Available => books'[i].status = CheckedOut
               /\ books[i].status = CheckedOut => books'[i].status = Available
               /\ (call.op = "5" /\ call.outcome = "changed" /\ CallId = CallIdNext)
                    => books'[i].status = call.shown]_vars

\* C5 witness: a record is checked out again after two confirmed calls had
\* brought it back to available.
C5_Witness ==
    /\ call.op = "5"
    /\ call.outcome = "changed"
    /\ Len(log) = 4
    /\ log[2].kind = "status_changed"
    /\ log[3] = log[2]
    /\ log[4] = log[2]
    /\ books[1].status = CheckedOut

Mutated == \E k \in 1..Len(log) : log[k].kind \in {"added", "deleted", "status_changed"}

\* C6: a new Library on the backing file holds the same records in the same
\* order as Library.books, and once a mutation has completed the file holds
\* the dump of Library.books.
C6_FileInSync ==
    /\ NewLibrary(file) = books
    /\ Mutated =>
         /\ file.exists
         /\ Len(file.content) = Len(books)
         /\ \A i \in 1..Len(books) :
               file.content[i] =
                   << <<"id", books[i].id>>, <<"title", books[i].title>>,
                      <<"author", books[i].author>>, <<"year", books[i].year>>,
                      <<"status", books[i].status>> >>

\* C6 witness: main was started again on a file written by add_book,
\* update_status and delete_book.
C6_Witness ==
    /\ call.op = "start"
    /\ Len(log) = 4
    /\ log[3].kind = "status_changed"
    /\ log[4].kind = "deleted"
    /\ Len(books) = 1
    /\ books[1].status = CheckedOut

\* C7: case "1" calls add_book exactly when the entered year satisfies
\* 0 < year <= current year.
C7_YearRangeInclusive ==
    (call.op = "1" /\ ParseInt(call.arg).ok)
        => (call.outcome = "added" <=> (0 < CallId /\ CallId <= CurrentYear))

\* the text of the field named in the search just served
C8_Text(b) ==
    CASE call.field = "title" -> b.title
      [] call.field = "author" -> b.author
      [] call.field = "year" -> IntToStr(b.year)

\* the lower-cased text contains the lower-cased query
C8_Hit(b) ==
    LET text == Lower(C8_Text(b))
        q == Lower(call.arg)
    IN  \E i \in 0..(Len(text) - Len(q)) : \A k \in 1..Len(q) : text[i + k] = q[k]

\* C8: search_books returns exactly the records whose lower-cased field text
\* contains the lower-cased query, in store order; the empty query returns
\* all records; the list and the file are left as they were.
C8_Search ==
    /\ [](call.outcome = "searched"
            => /\ out = SelectSeq(books, C8_Hit)
               /\ call.arg = <<>> => out = books)
    /\ [][call'.op = "3" => books' = books /\ file' = file /\ log' = log]_vars

\* C8 witness: a search returned some but not all of the records.
C8_Witness ==
    /\ call.outcome = "searched"
    /\ call.arg = <<"D">>
    /\ Len(books) = 3
    /\ Len(out) \in {1, 2}

\* C9: update_status declined, or on an absent id, leaves the list and the
\* file as they were, does not raise, and logs exactly one event; the list
\* or the file change only when the record exists and the answer confirms.
C9_UpdateFrame ==
    [][call'.op = "5" /\ call'.outcome # "not_a_number"
        => /\ call'.outcome \in {"declined", "not_found"}
                => /\ books' = books
                   /\ file' = file
                   /\ pc' = "menu"
                   /\ Len(log') = Len(log) + 1
                   /\ SubSeq(log', 1, Len(log)) = log
           /\ call'.outcome = "not_found"
                <=> \A i \in 1..Len(books) : books[i].id # CallIdNext
           /\ (books' # books \/ file' # file) => call'.outcome = "changed"]_vars

\* C9 witness: a declined call on a checked-out record.
C9_Witness ==
    /\ call.op = "5"
    /\ call.outcome = "declined"
    /\ call.shown = CheckedOut

\* C10: every status is available or checked_out; add_book creates the
\* record as available; a record that stays keeps title, author and year,
\* and its status changes only in a confirmed update_status on its id.
C10_Status ==
    /\ [](\A i \in 1..Len(books) : books[i].status \in {Available, CheckedOut})
    /\ [][/\ call'.outcome = "added" => books'[Len(books')].status = Available
          /\ \A i \in 1..Len(books), j \in 1..Len(books') :
                books[i].id = books'[j].id
                    => /\ books'[j].title = books[i].title
                       /\ books'[j].author = books[i].author
                       /\ books'[j].year = books[i].year
                       /\ books'[j].status # books[i].status
                            => /\ call'.op = "5"
                               /\ call'.outcome = "changed"
                               /\ CallIdNext = books[i].id]_vars

\* C10 witness: add_book ran next to a checked-out record.
C10_Witness ==
    /\ call.outcome = "added"
    /\ Len(books) = 2
    /\ books[1].status = CheckedOut
    /\ books[2].status = Available

====
